---- MODULE Spec2Model ----
(***************************************************************************)
(* A model of DeployTool (src/deploy_tool.py): one deploy() call of one    *)
(* DeployTool object, from the call to its return, together with the       *)
(* remote host the tool talks to.                                          *)
(*                                                                         *)
(* The tool is a single thread of control; pc is its position.  Every      *)
(* interaction with the outside (proxy, SSH server, remote shell, local    *)
(* file system) is one action whose outcome is chosen by the environment.  *)
(* calls is the sequence of operations the tool has performed, as a        *)
(* recording transport would see them.                                     *)
(***************************************************************************)
EXTENDS Integers, Sequences, FiniteSets, TLC

VARIABLES
    config,          \* self.config (read only after construction)
    pc,              \* position of control inside deploy / connect_ssh
    local_path,      \* deploy's local variable local_path
    remote_path,     \* deploy's local variable remote_path
    force_delete,    \* deploy's parameter force_delete
    local_exists,    \* os.path.exists(local_path) on the local machine
    ssh_client,      \* self.ssh_client
    scp_client,      \* self.scp_client
    proxy_client,    \* self.proxy_client
    sock,            \* connect_kwargs['sock']
    open_socks,      \* raw proxy sockets created and not closed
    attempt,         \* loop variable of the retry loop
    connect_result,  \* what connect_ssh returned
    calls,           \* operations performed so far, in order
    remote,          \* state of the remote host under remote_path
    remote_before,   \* that state when deploy was called
    inflight,        \* remote commands issued whose exit was not awaited
    temp_dir,        \* the tempfile.TemporaryDirectory of the archive
    finished,        \* progress_data['finished']
    monitor,         \* the progress monitor thread
    success,         \* deploy's local variable success
    retval,          \* value of a return statement waiting for the finally
    result           \* what deploy returned

vars == <<config, pc, local_path, remote_path, force_delete, local_exists,
          ssh_client, scp_client, proxy_client, sock, open_socks, attempt,
          connect_result, calls, remote, remote_before, inflight, temp_dir,
          finished, monitor, success, retval, result>>

argVars  == <<local_path, remote_path, force_delete, local_exists>>
envVars  == <<config, remote_before>>
connVars == <<ssh_client, scp_client, proxy_client, sock, open_socks,
              attempt, connect_result>>
xferVars == <<temp_dir, finished, monitor, success>>

-----------------------------------------------------------------------------
(* Bounds and value sets *)

\* largest deploy.retry_attempts a configuration holds
MaxRetries == 2

\* Python's None, and the three values of an Optional[bool]
None == "None"
OptBool == {"None", "True", "False"}

\* paths given on the command line and in the configuration
ArgPaths == {None, "", "/arg"}
CfgPaths == {None, "/cfg"}

ProxyTypes == {"socks5", "http", "auto"}
Formats == {"tar.gz", "zip", "rar"}

\* what the proxy answers to CONNECT: the substrings the code looks for
Responses == {{"200", "OK"}, {"200", "Connection established"},
              {"200"}, {"407"}, {"OK"}}

AllConfigs ==
    [paths_local : CfgPaths, paths_remote : CfgPaths,
     proxy_hostname : BOOLEAN, proxy_type : ProxyTypes,
     retry_attempts : 0..MaxRetries,
     delete_before_sync : BOOLEAN,
     compression : BOOLEAN, compression_format : Formats,
     checksum_verify : BOOLEAN]

\* the plain configuration: paths on the command line, no proxy, one attempt,
\* a verified tar.gz upload
BaseConfig ==
    [paths_local |-> None, paths_remote |-> None,
     proxy_hostname |-> FALSE, proxy_type |-> "auto",
     retry_attempts |-> 1,
     delete_before_sync |-> FALSE,
     compression |-> TRUE, compression_format |-> "tar.gz",
     checksum_verify |-> TRUE]

SamePaths(c) ==
    /\ c.paths_local = BaseConfig.paths_local
    /\ c.paths_remote = BaseConfig.paths_remote
SameConnection(c) ==
    /\ c.proxy_hostname = BaseConfig.proxy_hostname
    /\ c.proxy_type = BaseConfig.proxy_type
    /\ c.retry_attempts = BaseConfig.retry_attempts
SamePipeline(c) ==
    /\ c.delete_before_sync = BaseConfig.delete_before_sync
    /\ c.compression = BaseConfig.compression
    /\ c.compression_format = BaseConfig.compression_format
    /\ c.checksum_verify = BaseConfig.checksum_verify

\* The configurations checked: every connection section with every pipeline
\* section, the paths coming from the command line; and the plain connection
\* and pipeline with every paths section.  Without a proxy host the proxy
\* type is never read; it is held at its default (line 141).
Configs ==
    {c \in AllConfigs :
        /\ \/ SamePaths(c)
           \/ SameConnection(c) /\ SamePipeline(c)
        /\ ~c.proxy_hostname => c.proxy_type = "auto"}

-----------------------------------------------------------------------------
(* Pure helpers *)

\* Python truthiness of an Optional[str]
Truthy(s) == s # None /\ s # ""

\* an entry of calls: the operation, how it ended, and what it printed
Ev(op, status) == [op |-> op, status |-> status, output |-> <<>>]

Init ==
    /\ config \in Configs
    /\ pc = "idle"
    /\ local_path = None /\ remote_path = None /\ force_delete = None
    /\ local_exists \in BOOLEAN
    /\ ssh_client = None /\ scp_client = None /\ proxy_client = None
    /\ sock = None /\ open_socks = {} /\ attempt = 0
    /\ connect_result = "unset"
    /\ calls = <<>>
    /\ remote \in {[dir |-> TRUE, files |-> "old", archive |-> "absent"],
                   [dir |-> FALSE, files |-> "none", archive |-> "absent"]}
    /\ remote_before = remote
    /\ inflight = {}
    /\ temp_dir = "none" /\ finished = FALSE /\ monitor = "none"
    /\ success = FALSE
    /\ retval = None /\ result = "unset"

\* lines 551-569: --delete and --no-delete exclude each other; neither leaves
\* force_delete at None
CliDeleteFlags ==
    {[delete |-> FALSE, no_delete |-> FALSE],
     [delete |-> TRUE, no_delete |-> FALSE],
     [delete |-> FALSE, no_delete |-> TRUE]}
ForceDelete(flags) ==
    IF flags.delete THEN "True" ELSE IF flags.no_delete THEN "False" ELSE None

\* main() calls deploy(local_path, remote_path, force_delete)
Call(lp, rp, fd) ==
    /\ pc = "idle"
    /\ pc' = "resolve"
    /\ local_path' = lp /\ remote_path' = rp /\ force_delete' = fd
    /\ calls' = Append(calls, Ev("deploy", "-"))
    /\ UNCHANGED <<envVars, local_exists, connVars, remote, inflight,
                   xferVars, retval, result>>

\* a return statement outside the inner try/finally (lines 398, 404, 414,
\* 418, 429) or the outer except clause (lines 538-540)
ReturnDirect(v) == pc' = "done" /\ result' = v

\* OuterExcept with the exception handed on to the caller of deploy
OuterExcept_Reraise == ReturnDirect("raised")

\* lines 538-540: the outer handler logs the exception and returns False
OuterExcept == ReturnDirect("False")

\* lines 394-401: config["paths"] is looked up only when an argument is falsy;
\* when that section is not a mapping, .get raises AttributeError, which the
\* outer handler catches
ResolveRaises ==
    /\ pc = "resolve"
    /\ ~Truthy(local_path) \/ ~Truthy(remote_path)
    /\ OuterExcept
    /\ UNCHANGED <<envVars, argVars, connVars, calls, remote, inflight,
                   xferVars, retval>>

\* ResolvePath with a default: the current directory when no path is given
ResolvePath_DefaultCwd(arg, cfg) ==
    IF Truthy(arg) THEN arg ELSE IF Truthy(cfg) THEN cfg ELSE "."

\* lines 394-395, 400-401: an explicit argument overrides the configured one
ResolvePath(arg, cfg) == IF Truthy(arg) THEN arg ELSE cfg

\* lines 392-417: resolve both paths, validate the local one, then connect
ResolvePaths ==
    /\ pc = "resolve"
    /\ LET lp == ResolvePath(local_path, config.paths_local)
           rp == ResolvePath(remote_path, config.paths_remote)
       IN  /\ local_path' = lp
           /\ IF ~Truthy(lp)
                THEN ReturnDirect("False") /\ UNCHANGED remote_path
                ELSE /\ remote_path' = rp
                     /\ IF ~Truthy(rp) \/ ~local_exists
                          THEN ReturnDirect("False")
                          ELSE pc' = "connect" /\ UNCHANGED result
    /\ UNCHANGED <<envVars, force_delete, local_exists, connVars, calls,
                   remote, inflight, xferVars, retval>>

-----------------------------------------------------------------------------
(* connect_ssh, lines 110-246 *)

\* ShouldDelete as "force_delete or the configured flag": an explicit False
\* does not switch a configured deletion off
ShouldDelete_ConfigWins(fd, cfg) == cfg.delete_before_sync \/ fd = "True"

\* lines 421-423: the explicit override wins, the configuration is the default
ShouldDelete(fd, cfg) ==
    IF fd = None THEN cfg.delete_before_sync ELSE fd = "True"

\* ConnectSucceeded as "connect_ssh did not return False": None passes
ConnectSucceeded_NotFalse(v) == v # "False"

\* ConnectSucceeded with the value connect_ssh returned ignored
ConnectSucceeded_Ignored(v) == TRUE

\* line 417: deploy goes on only when connect_ssh returned a true value
ConnectSucceeded(v) == v = "True"

\* connect_ssh returns v to deploy (lines 417-426): a false value makes deploy
\* return False; otherwise deploy decides whether to delete the remote folder
ConnectReturns(v) ==
    /\ connect_result' = v
    /\ IF ConnectSucceeded(v)
         THEN /\ pc' = IF ShouldDelete(force_delete, config)
                         THEN "delete_test" ELSE "mkdir"
              /\ UNCHANGED result
         ELSE ReturnDirect("False")

\* lines 223-226: entering "for attempt in range(max_retries)"; an empty range
\* falls off the end of connect_ssh, which then returns None
EnterRetryLoop ==
    /\ attempt' = 0
    /\ IF config.retry_attempts > 0
         THEN pc' = "handshake" /\ UNCHANGED <<connect_result, result>>
         ELSE ConnectReturns("None")

\* lines 147, 176: the first proxy stage of each proxy type
FirstProxyStage(t) == IF t \in {"socks5", "auto"} THEN "socks5" ELSE "http"

\* lines 113-147
ConnectBegin ==
    /\ pc = "connect"
    /\ calls' = Append(calls, Ev("connect_ssh", "-"))
    /\ ssh_client' = "created"
    /\ IF config.proxy_hostname
         THEN /\ pc' = FirstProxyStage(config.proxy_type)
              /\ UNCHANGED <<attempt, connect_result, result>>
         ELSE EnterRetryLoop
    /\ UNCHANGED <<envVars, argVars, scp_client, proxy_client, sock, open_socks,
                   remote, inflight, xferVars, retval>>

\* lines 162-175 and 213-220: where a failed SOCKS5 stage leads.  The raise of
\* lines 168/174 leaves the try block of line 144, so the HTTP CONNECT code of
\* line 176 is skipped and the handler of line 213 goes on without a proxy
AfterSocks5Failure(t) == IF t = "auto" THEN "direct" ELSE "fail"

\* line 176: after a SOCKS5 socket was set up, type auto also runs the HTTP
\* CONNECT block
AfterSocks5Success(t) == IF t = "auto" THEN "http" ELSE "direct"

\* lines 213-220: where a failed HTTP CONNECT stage leads
AfterHttpFailure(t) == IF t = "auto" THEN "direct" ELSE "fail"

\* the continuation of connect_ssh after a proxy stage
ProxyStageLeadsTo(where) ==
    CASE where = "http"   -> /\ pc' = "http"
                             /\ UNCHANGED <<attempt, connect_result, result>>
      [] where = "direct" -> EnterRetryLoop
      [] where = "fail"   -> UNCHANGED attempt /\ ConnectReturns("False")

\* lines 149-175: the SOCKS5 stage; outcome is import_error (PySocks missing),
\* connect_error (sock.connect raised) or ok
Socks5(outcome) ==
    /\ pc = "socks5"
    /\ calls' = Append(calls, Ev("socks5", outcome))
    /\ IF outcome \in {"import_error", "connect_error"}
         THEN /\ ProxyStageLeadsTo(AfterSocks5Failure(config.proxy_type))
              /\ UNCHANGED <<sock, open_socks>>
         ELSE /\ sock' = "socks5"
              /\ open_socks' = open_socks \cup {"socks5"}
              /\ ProxyStageLeadsTo(AfterSocks5Success(config.proxy_type))
    /\ UNCHANGED <<envVars, argVars, ssh_client, scp_client, proxy_client,
                   remote, inflight, xferVars, retval>>

\* HttpResponseOk satisfied by the status code alone
HttpResponseOk_Only200(response) == "200" \in response

\* line 206: the proxy's answer is accepted
HttpResponseOk(response) ==
    "200" \in response /\ ("OK" \in response \/ "Connection established" \in response)

\* lines 178-211: the HTTP CONNECT stage; err: the socket calls raised
Http(err, response) ==
    /\ pc = "http"
    /\ calls' = Append(calls,
                    [op |-> "http_connect",
                     status |-> IF ~err /\ HttpResponseOk(response)
                                  THEN "ok" ELSE "failed",
                     output |-> IF err THEN <<>> ELSE <<response>>])
    /\ IF ~err /\ HttpResponseOk(response)
         THEN /\ sock' = "http"
              /\ open_socks' = open_socks \cup {"http"}
              /\ EnterRetryLoop
         ELSE /\ ProxyStageLeadsTo(AfterHttpFailure(config.proxy_type))
              /\ UNCHANGED <<sock, open_socks>>
    /\ UNCHANGED <<envVars, argVars, ssh_client, scp_client, proxy_client,
                   remote, inflight, xferVars, retval>>

\* RetryAgain off by one: a pause and one more attempt after the last one
RetryAgain_OffByOne(a, max_retries) == a < max_retries

\* line 237: after a failed attempt, is there another one
RetryAgain(a, max_retries) == a < max_retries - 1

\* lines 226-242: one pass of the retry loop; outcome is ok, fail (connect
\* raised) or scp_error (connect returned and SCPClient raised)
Handshake(outcome) ==
    /\ pc = "handshake"
    /\ IF outcome = "ok"
         THEN /\ calls' = Append(calls, Ev("ssh_connect", "ok"))
              /\ ssh_client' = "connected"
              /\ scp_client' = "open"
              /\ UNCHANGED attempt
              /\ ConnectReturns("True")
         ELSE /\ ssh_client' = IF outcome = "scp_error" THEN "connected"
                                                         ELSE ssh_client
              /\ UNCHANGED scp_client
              /\ IF RetryAgain(attempt, config.retry_attempts)
                   THEN /\ calls' = calls \o <<Ev("ssh_connect", "failed"),
                                                  Ev("sleep", "-")>>
                        /\ attempt' = attempt + 1
                        /\ UNCHANGED <<pc, connect_result, result>>
                   ELSE /\ calls' = Append(calls, Ev("ssh_connect", "failed"))
                        /\ UNCHANGED attempt
                        /\ ConnectReturns("False")
    /\ UNCHANGED <<envVars, argVars, proxy_client, sock, open_socks,
                   remote, inflight, xferVars, retval>>

-----------------------------------------------------------------------------
(* delete_remote_folder, lines 360-388, and its call, lines 426-429 *)

\* AfterDeleteRemoteFolder with the returned value ignored
AfterDeleteRemoteFolder_Ignored(returned) == pc' = "mkdir" /\ UNCHANGED result

\* lines 427-429: deploy aborts when delete_remote_folder returned False
AfterDeleteRemoteFolder(returned) ==
    IF returned THEN pc' = "mkdir" /\ UNCHANGED result
                ELSE ReturnDirect("False")

\* AfterExistenceTest without the test of the exit status: rm -rf always runs
AfterExistenceTest_AlwaysRm(raised, exit_status) ==
    IF raised THEN "False" ELSE "rm"

\* lines 364-368, 382-388: what follows the existence test: the rm -rf command
\* when the folder exists, True when it does not, False when the command raised
AfterExistenceTest(raised, exit_status) ==
    IF raised THEN "False" ELSE IF exit_status = 0 THEN "rm" ELSE "True"

\* the exit status of "test -d remote_path" on the remote host
TestDirStatus == IF remote.dir THEN 0 ELSE 1

\* how a remote command ended, for calls
Status(raised, exit_status) ==
    IF raised THEN "raise" ELSE IF exit_status = 0 THEN "0" ELSE "nonzero"

\* lines 362-368, 382-388
DeleteTest(raised) ==
    /\ pc = "delete_test"
    /\ calls' = Append(calls, Ev("test -d", Status(raised, TestDirStatus)))
    /\ LET next == AfterExistenceTest(raised, TestDirStatus)
       IN  IF next = "rm" THEN pc' = "delete_rm" /\ UNCHANGED result
                          ELSE AfterDeleteRemoteFolder(next = "True")
    /\ UNCHANGED <<envVars, argVars, connVars, remote, inflight, xferVars,
                   retval>>

\* AfterRm with the exit status of rm -rf ignored
AfterRm_Ignored(outcome) == TRUE

\* lines 373-381, 386-388: the value delete_remote_folder returns after rm -rf
AfterRm(outcome) == outcome = "0"

\* lines 369-381: outcome is 0, nonzero (the exit status) or raise
DeleteRm(outcome) ==
    /\ pc = "delete_rm"
    /\ calls' = Append(calls, Ev("rm -rf", outcome))
    /\ remote' = IF outcome = "0"
                   THEN [dir |-> FALSE, files |-> "none", archive |-> "absent"]
                   ELSE remote
    /\ AfterDeleteRemoteFolder(AfterRm(outcome))
    /\ UNCHANGED <<envVars, argVars, connVars, inflight, xferVars, retval>>

-----------------------------------------------------------------------------
(* the transfer, lines 431-536 *)

\* a return statement, or a caught exception, inside the inner try (lines 506,
\* 529, 533): the finally clause of line 535 runs before deploy returns
ReturnThroughFinally(v) == pc' = "finally" /\ retval' = v

\* InnerExcept reporting success after the exception was logged
InnerExcept_ReturnsTrue == ReturnThroughFinally("True")

\* lines 531-533: the inner handler logs the exception and returns False
InnerExcept == ReturnThroughFinally("False")

\* LeaveTempDir with the directory and the archive in it left on disk
LeaveTempDir_Leak == UNCHANGED temp_dir

\* line 441: control leaves the "with tempfile.TemporaryDirectory()" block, by
\* a return or by an exception, and the directory is removed with the archive
LeaveTempDir == temp_dir' = "removed"

\* lines 432-439: mkdir -p is issued and its exit status is not awaited; an
\* exception here is caught by the outer handler (line 538)
Mkdir(raised) ==
    /\ pc = "mkdir"
    /\ calls' = Append(calls, Ev("mkdir -p", IF raised THEN "raise" ELSE "issued"))
    /\ IF raised
         THEN OuterExcept /\ UNCHANGED inflight
         ELSE /\ inflight' = inflight \cup {"mkdir -p"}
              /\ pc' = IF config.compression THEN "compress" ELSE "direct_put"
              /\ UNCHANGED result
    /\ UNCHANGED <<envVars, argVars, connVars, remote, xferVars, retval>>

\* the remote host finishes a command nobody waits for; ok says whether it
\* took effect (it exited 0) or not (it failed, or died with its connection)
RemoteFinishes(cmd, ok) ==
    /\ cmd \in inflight
    /\ inflight' = inflight \ {cmd}
    /\ remote' = IF ~ok THEN remote
                 ELSE IF cmd = "mkdir -p" THEN [remote EXCEPT !.dir = TRUE]
                 ELSE [remote EXCEPT !.archive = "absent"]
    /\ UNCHANGED <<envVars, pc, argVars, connVars, calls, xferVars, retval,
                   result>>

\* lines 274, 284, 295-296
SupportedFormat(f) == f \in {"tar.gz", "zip"}

\* lines 441-472: the temporary directory, compress_directory, and the start
\* of the progress monitor thread; io_error: building the archive raised
Compress(io_error) ==
    /\ pc = "compress"
    /\ calls' = Append(calls, Ev("compress",
                    IF io_error \/ ~SupportedFormat(config.compression_format)
                      THEN "raise" ELSE "ok"))
    /\ IF io_error \/ ~SupportedFormat(config.compression_format)
         THEN /\ LeaveTempDir
              /\ InnerExcept
              /\ UNCHANGED <<finished, monitor>>
         ELSE /\ temp_dir' = "exists"
              /\ finished' = FALSE
              /\ monitor' = "running"
              /\ pc' = "put"
              /\ UNCHANGED retval
    /\ UNCHANGED <<envVars, argVars, connVars, remote, inflight, success,
                   result>>

\* lines 498-503: the upload is over
AfterUpload == IF config.checksum_verify THEN "verify" ELSE "decompress"

\* what an upload leaves on the remote host.  ok: the archive as built;
\* corrupt: all bytes arrived, some wrong; error_partial: the transfer broke
\* off; error, type_error: nothing was written; type_error_partial: the call
\* raised TypeError or AttributeError after part of the archive was written.
\* Nothing can be written into a directory that does not exist.
Uploaded(outcome) ==
    IF ~remote.dir THEN remote
    ELSE CASE outcome = "ok"            -> [remote EXCEPT !.archive = "intact"]
           [] outcome = "corrupt"       -> [remote EXCEPT !.archive = "corrupt"]
           [] outcome \in {"error_partial", "type_error_partial"}
                                        -> [remote EXCEPT !.archive = "partial"]
           [] OTHER                     -> remote

\* did the transfer call return normally
UploadReturned(outcome) == outcome \in {"ok", "corrupt"} /\ remote.dir

\* line 481: the exceptions that send deploy to the chunked upload.  The
\* handler looks at the type of the exception alone, not at what the
\* streaming call had sent when it raised
FallsBack(outcome) == outcome \in {"type_error", "type_error_partial"}

\* how a transfer call ended, for calls
UploadStatus(outcome) ==
    IF UploadReturned(outcome) THEN "ok"
    ELSE IF FallsBack(outcome) THEN "type_error" ELSE "raise"

\* lines 474-481, 498: scp_client.put with the progress callback
Put(outcome) ==
    /\ pc = "put"
    /\ calls' = Append(calls, Ev("scp_put", UploadStatus(outcome)))
    /\ remote' = Uploaded(outcome)
    /\ IF UploadReturned(outcome)
         THEN /\ finished' = TRUE
              /\ pc' = AfterUpload
              /\ UNCHANGED <<temp_dir, retval>>
         ELSE IF FallsBack(outcome)
         THEN /\ pc' = "sftp_put"
              /\ UNCHANGED <<finished, temp_dir, retval>>
         ELSE /\ LeaveTempDir
              /\ InnerExcept
              /\ UNCHANGED finished
    /\ UNCHANGED <<envVars, argVars, connVars, inflight, monitor, success,
                   result>>

\* lines 481-498: the chunked upload over SFTP
SftpPut(outcome) ==
    /\ pc = "sftp_put"
    /\ calls' = Append(calls, Ev("sftp_put", UploadStatus(outcome)))
    /\ remote' = Uploaded(outcome)
    /\ IF UploadReturned(outcome)
         THEN /\ finished' = TRUE
              /\ pc' = AfterUpload
              /\ UNCHANGED <<temp_dir, retval>>
         ELSE /\ LeaveTempDir
              /\ InnerExcept
              /\ UNCHANGED finished
    /\ UNCHANGED <<envVars, argVars, connVars, inflight, monitor, success,
                   result>>

\* lines 261-267: the SHA256 digest of a file, by its content
Digest(content) == <<"sha256", content>>

\* VerifyRemoteChecksum failing whenever no remote digest was obtained
VerifyRemoteChecksum_Strict(local_checksum, outcome, output) ==
    outcome = "0" /\ output # <<>> /\ local_checksum = Head(output)

\* VerifyRemoteChecksum with the comparison left out
VerifyRemoteChecksum_AlwaysTrue(local_checksum, outcome, output) == TRUE

\* lines 333-358: what verify_remote_checksum returns.  outcome is raise,
\* nonzero (exit status not 0) or 0; output is the list of tokens of the
\* command's standard output, of which the first is the digest
VerifyRemoteChecksum(local_checksum, outcome, output) ==
    IF outcome = "raise" THEN TRUE
    ELSE IF outcome = "nonzero" THEN TRUE
    ELSE IF output = <<>> THEN TRUE
    ELSE local_checksum = Head(output)

\* what "sha256sum remote_file" prints
Sha256sumOutput(empty) ==
    IF empty THEN <<>> ELSE <<Digest(remote.archive), "remote_archive">>

\* lines 503-506
Verify(outcome, empty) ==
    /\ pc = "verify"
    /\ calls' = Append(calls, [op |-> "sha256sum", status |-> outcome,
                                output |-> IF outcome = "0"
                                             THEN Sha256sumOutput(empty)
                                             ELSE <<>>])
    /\ IF VerifyRemoteChecksum(Digest("intact"), outcome, Sha256sumOutput(empty))
         THEN pc' = "decompress" /\ UNCHANGED <<temp_dir, retval>>
         ELSE LeaveTempDir /\ ReturnThroughFinally("False")
    /\ UNCHANGED <<envVars, argVars, connVars, remote, inflight, finished,
                   monitor, success, result>>

\* lines 306-309
DecompressCommand(f) == IF f = "tar.gz" THEN "tar -xzf" ELSE "unzip -o"

\* lines 301-329 and 509-536: decompress_remote and the end of the compressed
\* branch.  outcome is raise (the command could not be run), nonzero (its
\* exit status), 0, or cleanup_raise (exit status 0, then issuing the rm
\* command raised).  Only an intact archive unpacks.
Decompress(outcome) ==
    /\ pc = "decompress"
    /\ LET unpacked == outcome \in {"0", "cleanup_raise"}
                       /\ remote.archive = "intact"
           returned == unpacked /\ outcome = "0"
           cmd == DecompressCommand(config.compression_format)
       IN  /\ calls' = IF unpacked
                         THEN calls \o <<Ev(cmd, "0"),
                                         Ev("rm", IF returned THEN "issued"
                                                              ELSE "raise")>>
                         ELSE Append(calls, Ev(cmd, IF outcome = "raise"
                                                      THEN "raise" ELSE "nonzero"))
           /\ remote' = IF unpacked THEN [remote EXCEPT !.files = "new"]
                        ELSE IF outcome = "raise" THEN remote
                        ELSE [remote EXCEPT !.files = "partial"]
           /\ inflight' = IF returned THEN inflight \cup {"rm"} ELSE inflight
           /\ success' = returned
           /\ ReturnThroughFinally(IF returned THEN "True" ELSE "False")
    /\ LeaveTempDir
    /\ UNCHANGED <<envVars, argVars, connVars, finished, monitor, result>>

\* lines 512-533: the direct copy.  outcome is ok, error (the copy raised
\* before anything was written) or error_partial (it raised part-way)
DirectPut(outcome) ==
    /\ pc = "direct_put"
    /\ calls' = Append(calls, Ev("scp_copy",
                    IF outcome = "ok" THEN "ok" ELSE "raise"))
    /\ remote' = CASE outcome = "ok" ->
                        [remote EXCEPT !.dir = TRUE, !.files = "new"]
                   [] outcome = "error_partial" ->
                        [remote EXCEPT !.dir = TRUE, !.files = "partial"]
                   [] OTHER -> remote
    /\ success' = (outcome = "ok")
    /\ IF outcome = "ok" THEN ReturnThroughFinally("True") ELSE InnerExcept
    /\ UNCHANGED <<envVars, argVars, connVars, inflight, temp_dir, finished,
                   monitor, result>>

\* lines 248-259 and 535-536: disconnect_ssh in the finally clause, after
\* which deploy returns.  Closing the SSH client closes its transport and the
\* socket the transport runs on.
Finally ==
    /\ pc = "finally"
    /\ calls' = Append(calls, Ev("disconnect_ssh", "-"))
    /\ scp_client' = None
    /\ ssh_client' = None
    /\ proxy_client' = None
    /\ open_socks' = open_socks \ {sock}
    /\ pc' = "done"
    /\ result' = retval
    /\ UNCHANGED <<envVars, argVars, sock, attempt, connect_result, remote,
                   inflight, xferVars, retval>>

\* lines 155, 207: after HTTP CONNECT replaced connect_kwargs["sock"], the
\* SOCKS5 socket is held by the local variable sock alone.  Nothing closes
\* it; once connect_ssh has returned, the interpreter may finalize it at a
\* time of its own choosing
SocketFinalized(s) ==
    /\ connect_result # "unset"
    /\ s \in open_socks
    /\ s # sock
    /\ open_socks' = open_socks \ {s}
    /\ UNCHANGED <<envVars, pc, argVars, ssh_client, scp_client, proxy_client,
                   sock, attempt, connect_result, calls, remote, inflight,
                   xferVars, retval, result>>

\* lines 460-468: the monitor thread polls the flag and leaves its loop
MonitorPoll ==
    /\ monitor = "running"
    /\ finished
    /\ monitor' = "exited"
    /\ UNCHANGED <<envVars, pc, argVars, connVars, calls, remote, inflight,
                   temp_dir, finished, success, retval, result>>

Next ==
    \/ \E lp \in ArgPaths, rp \in ArgPaths, flags \in CliDeleteFlags :
          Call(lp, rp, ForceDelete(flags))
    \/ ResolvePaths
    \/ ResolveRaises
    \/ ConnectBegin
    \/ \E o \in {"import_error", "connect_error", "ok"} : Socks5(o)
    \/ \E err \in BOOLEAN, r \in Responses : Http(err, r)
    \/ \E o \in {"ok", "fail", "scp_error"} : Handshake(o)
    \/ \E raised \in BOOLEAN : DeleteTest(raised)
    \/ \E o \in {"0", "nonzero", "raise"} : DeleteRm(o)
    \/ \E raised \in BOOLEAN : Mkdir(raised)
    \/ \E cmd \in {"mkdir -p", "rm"}, ok \in BOOLEAN : RemoteFinishes(cmd, ok)
    \/ \E io_error \in BOOLEAN : Compress(io_error)
    \/ \E o \in {"ok", "corrupt", "type_error", "type_error_partial", "error",
                "error_partial"} : Put(o)
    \/ \E o \in {"ok", "corrupt", "error", "error_partial"} : SftpPut(o)
    \/ \E o \in {"raise", "nonzero", "0"}, empty \in BOOLEAN : Verify(o, empty)
    \/ \E o \in {"raise", "nonzero", "0", "cleanup_raise"} : Decompress(o)
    \/ \E outcome \in {"ok", "error", "error_partial"} : DirectPut(outcome)
    \/ Finally
    \/ MonitorPoll
    \/ \E s \in {"socks5", "http"} : SocketFinalized(s)

Spec == Init /\ [][Next]_vars

-----------------------------------------------------------------------------
(* Reading calls *)

Happened(op) == \E i \in DOMAIN calls : calls[i].op = op
Count(op) == Cardinality({i \in DOMAIN calls : calls[i].op = op})

RemoteCommands ==
    {"test -d", "rm -rf", "mkdir -p", "sha256sum", "tar -xzf", "unzip -o", "rm"}
Uploads == {"scp_put", "sftp_put", "scp_copy"}
DecompressCommands == {"tar -xzf", "unzip -o"}
\* the operations that write under remote_path
RemoteWrites == {"mkdir -p"} \cup Uploads \cup DecompressCommands

\* a proxy stage failed in a mode that has no fallback (lines 214-216)
ProxyFatal ==
    /\ config.proxy_hostname
    /\ config.proxy_type # "auto"
    /\ \E i \in DOMAIN calls :
          calls[i].op \in {"socks5", "http_connect"} /\ calls[i].status # "ok"

Socks5Failed ==
    \E i \in DOMAIN calls : calls[i].op = "socks5" /\ calls[i].status # "ok"
HttpFailed ==
    \E i \in DOMAIN calls : calls[i].op = "http_connect" /\ calls[i].status # "ok"
DeleteInEffect == pc # "idle" /\ ShouldDelete(force_delete, config)

-----------------------------------------------------------------------------
(* The claims *)

\* C1: whenever deploy has returned after connect_ssh succeeded,
\* disconnect_ssh was called before it returned, whatever the exit path.
C1_DisconnectOnEveryExit ==
    (pc = "done" /\ connect_result = "True") => Happened("disconnect_ssh")

\* C2: with a proxy host and proxy type auto, by the time the handshake is
\* attempted SOCKS5 has been tried; if it failed HTTP CONNECT has been tried;
\* the handshake runs without a proxy socket only after HTTP CONNECT failed
\* too; and connect_ssh fails only when all three stages failed.
C2_AutoTriesEveryStageInOrder ==
    (config.proxy_hostname /\ config.proxy_type = "auto"
        /\ Happened("ssh_connect")) =>
        /\ Happened("socks5")
        /\ Socks5Failed => Happened("http_connect")
        /\ sock = None => (Socks5Failed /\ HttpFailed)
        /\ connect_result = "False" => (Socks5Failed /\ HttpFailed)

\* C3: when the retry loop ends with every handshake failed, exactly
\* retry_attempts attempts were made, with a pause between each two
\* consecutive attempts and none after the last, and deploy reports failure;
\* and nothing is attempted after a handshake that succeeded.
C3_RetryExactly ==
    /\ (connect_result \in {"False", "None"} /\ ~ProxyFatal) =>
          /\ Count("ssh_connect") = config.retry_attempts
          /\ config.retry_attempts >= 1 =>
                Count("sleep") = config.retry_attempts - 1
          /\ config.retry_attempts = 0 => Count("sleep") = 0
          /\ \A i \in DOMAIN calls : calls[i].op = "sleep" =>
                /\ 1 < i /\ i < Len(calls)
                /\ calls[i - 1].op = "ssh_connect"
                /\ calls[i + 1].op = "ssh_connect"
          /\ pc = "done" /\ result = "False"
    /\ \A i, j \in DOMAIN calls :
          (calls[i].op = "ssh_connect" /\ calls[i].status = "ok" /\ i < j) =>
              calls[j].op \notin {"ssh_connect", "sleep"}

C3_Witness ==
    /\ connect_result = "False" /\ ~ProxyFatal
    /\ config.retry_attempts >= 2
    /\ Count("sleep") >= 1

\* C4: with delete-before-sync in effect, every write to the remote path
\* (mkdir, upload, copy, decompression) comes after an rm -rf that exited
\* with status 0 or an existence test that found the folder absent.
C4_DeleteBeforeAnyWrite ==
    \A j \in DOMAIN calls :
        (DeleteInEffect /\ calls[j].op \in RemoteWrites) =>
            \E i \in 1..(j - 1) :
                \/ calls[i].op = "rm -rf" /\ calls[i].status = "0"
                \/ calls[i].op = "test -d" /\ calls[i].status = "nonzero"

C4_Witness ==
    /\ DeleteInEffect
    /\ \E i \in DOMAIN calls : calls[i].op = "rm -rf" /\ calls[i].status = "0"
    /\ Happened("mkdir -p") /\ Happened("scp_put")
    /\ Happened("tar -xzf")

\* the remote checksum command exited 0 and printed a digest
GotRemoteDigest(e) ==
    e.op = "sha256sum" /\ e.status = "0" /\ e.output # <<>>
\* the local archive's digest, line 334
LocalDigest == Digest("intact")

\* C5: if the remote checksum command exits 0 with a digest other than the
\* local one, deploy returns False and never issues the decompress command;
\* if the digests are equal, deploy goes on to the decompress command.
C5_ChecksumGate ==
    \A i \in DOMAIN calls : GotRemoteDigest(calls[i]) =>
        IF Head(calls[i].output) # LocalDigest
          THEN /\ \A j \in DOMAIN calls : calls[j].op \notin DecompressCommands
               /\ pc \in {"finally", "done"}
               /\ pc = "finally" => retval = "False"
               /\ pc = "done" => result = "False"
          ELSE /\ i = Len(calls) => pc = "decompress"
               /\ i < Len(calls) => calls[i + 1].op \in DecompressCommands

C5_Witness ==
    /\ pc = "done" /\ result = "False"
    /\ \E i \in DOMAIN calls :
          GotRemoteDigest(calls[i]) /\ Head(calls[i].output) # LocalDigest

\* C6: after a compressed deploy that returned True, the uploaded archive is
\* no longer on the remote host.
C6_ArchiveGoneAfterSuccess ==
    (pc = "done" /\ result = "True" /\ config.compression) =>
        remote.archive = "absent"

\* deploy has neither a local nor a remote path to use, or the local one
\* does not exist
PathsUnavailable ==
    \/ ~Truthy(local_path) /\ ~Truthy(config.paths_local)
    \/ ~Truthy(remote_path) /\ ~Truthy(config.paths_remote)
    \/ ~local_exists

\* C7: when a path is unavailable or the local path does not exist, deploy
\* returns False at once: connect_ssh is not called, no socket is opened, and
\* nothing more is done after the return.
C7_NoConnectionWithoutPaths ==
    [][/\ (pc = "resolve" /\ PathsUnavailable) =>
            /\ pc' = "done" /\ result' = "False"
            /\ calls' = calls
            /\ ssh_client' = None /\ sock' = None /\ open_socks' = {}
       /\ pc = "done" => (pc' = "done" /\ calls' = calls /\ result' = result)
      ]_vars

C7_Witness ==
    /\ pc = "done" /\ result = "False"
    /\ ~Truthy(local_path) /\ Truthy(remote_path)
    /\ ~Happened("connect_ssh")

\* C8: if connect_ssh fails, deploy returns False, no remote command and no
\* upload is ever issued, and the remote host is as it was.
C8_ConnectFailureTouchesNothing ==
    connect_result \in {"False", "None"} =>
        /\ pc = "done" /\ result = "False"
        /\ \A i \in DOMAIN calls : calls[i].op \notin RemoteCommands \cup Uploads
        /\ inflight = {}
        /\ remote = remote_before

C8_Witness ==
    /\ connect_result = "False" /\ pc = "done"
    /\ Count("ssh_connect") >= 2

\* delete_remote_folder failed: rm -rf did not exit 0, or a command raised
DeleteFailed ==
    \E i \in DOMAIN calls :
        \/ calls[i].op = "rm -rf" /\ calls[i].status # "0"
        \/ calls[i].op = "test -d" /\ calls[i].status = "raise"

\* C9: if delete_remote_folder fails, deploy returns False and attempts no
\* mkdir, archive build, upload, checksum or decompress step.
C9_DeleteFailureAborts ==
    (DeleteInEffect /\ DeleteFailed) =>
        /\ pc = "done" /\ result = "False"
        /\ \A i \in DOMAIN calls :
              calls[i].op \notin ({"compress", "rm"} \cup RemoteWrites
                                   \cup {"sha256sum"})

C9_Witness ==
    /\ pc = "done"
    /\ \E i \in DOMAIN calls : calls[i].op = "rm -rf" /\ calls[i].status = "nonzero"

\* C10: when the existence test finds the remote path absent,
\* delete_remote_folder issues no rm -rf and succeeds: deploy is then where
\* it would be without the delete step, at the mkdir command, with the
\* remote host untouched, and mkdir is the next thing it does.
C10_DeleteOfAbsentFolderIsNoOp ==
    \A i \in DOMAIN calls :
        (calls[i].op = "test -d" /\ calls[i].status = "nonzero") =>
            /\ ~Happened("rm -rf")
            /\ i = Len(calls) =>
                  /\ pc = "mkdir" /\ result = "unset"
                  /\ remote = remote_before /\ inflight = {}
            /\ i < Len(calls) => calls[i + 1].op = "mkdir -p"

C10_Witness ==
    /\ pc = "done" /\ result = "True"
    /\ \E i \in DOMAIN calls : calls[i].op = "test -d" /\ calls[i].status = "nonzero"
    /\ Happened("mkdir -p")

\* the remote folder delete step has run or is about to
DeleteStepRuns ==
    Happened("test -d") \/ pc \in {"delete_test", "delete_rm"}

\* C11: the delete step is decided by force_delete when it is True or False
\* and by deploy.delete_before_sync only when it is None: with False no
\* existence test or rm -rf is ever issued, with True the delete step runs
\* once connected, whatever the configuration says.
C11_DeleteFlagPrecedence ==
    /\ force_delete = "False" =>
          (~DeleteStepRuns /\ ~Happened("rm -rf"))
    /\ (connect_result = "True" /\ force_delete = "True") => DeleteStepRuns
    /\ (connect_result = "True" /\ force_delete = None) =>
          (DeleteStepRuns <=> config.delete_before_sync)

C11_Witness ==
    /\ force_delete = "False" /\ config.delete_before_sync
    /\ pc = "done" /\ result = "True"

\* a step of the given kind raised an exception
Raised(op) ==
    \E i \in DOMAIN calls : calls[i].op = op /\ calls[i].status = "raise"

C13_ExplicitProxyFailureIsFatal ==
    (config.proxy_hostname /\ config.proxy_type \in {"socks5", "http"}) =>
        /\ config.proxy_type = "socks5" => ~Happened("http_connect")
        /\ config.proxy_type = "http" => ~Happened("socks5")
        /\ \A i \in DOMAIN calls :
              LET e == calls[i]
                  accepted(r) == "200" \in r /\ ("OK" \in r \/
                                     "Connection established" \in r)
                  failed ==
                      \/ e.op = "socks5"
                            /\ e.status \in {"import_error", "connect_error"}
                      \/ e.op = "http_connect"
                            /\ (e.output = <<>> \/ ~accepted(Head(e.output)))
              IN  failed => /\ i = Len(calls)
                            /\ pc = "done"
                            /\ connect_result = "False"
                            /\ result = "False"

C13_Witness ==
    /\ config.proxy_hostname /\ config.proxy_type = "http"
    /\ pc = "done"
    /\ calls[Len(calls)].op = "http_connect"
    /\ calls[Len(calls)].output = <<{"200"}>>

\* C14: with a proxy host configured the retry loop wraps the whole attempt:
\* the pause after a failed try is followed by a new proxy negotiation, and
\* every handshake comes directly after a negotiation.
C14_EveryTryNegotiatesProxy ==
    config.proxy_hostname =>
        \A i \in DOMAIN calls :
            /\ (calls[i].op = "sleep" /\ i < Len(calls))
                  => calls[i + 1].op \in {"socks5", "http_connect"}
            /\ (calls[i].op = "ssh_connect" /\ i > 1)
                  => calls[i - 1].op \in {"socks5", "http_connect"}

\* C15: the checksum gates the deployment only when a remote digest was
\* obtained.  When the checksum command raised, exited nonzero or printed no
\* digest, deploy continues to the decompression; deploy stops after the
\* checksum step only when the command exited 0 with a digest other than the
\* local one.
C15_ChecksumLenientWithoutDigest ==
    \A i \in DOMAIN calls : calls[i].op = "sha256sum" =>
        /\ ~GotRemoteDigest(calls[i]) =>
              IF i = Len(calls) THEN pc = "decompress"
              ELSE calls[i + 1].op \in DecompressCommands
        /\ ((i = Len(calls) /\ pc = "finally")
             \/ (i < Len(calls) /\ calls[i + 1].op = "disconnect_ssh"))
              => (GotRemoteDigest(calls[i])
                  /\ Head(calls[i].output) # LocalDigest)

C15_Witness ==
    /\ pc = "done" /\ result = "True"
    /\ \E i \in DOMAIN calls :
          /\ calls[i].op = "sha256sum"
          /\ calls[i].status = "0" /\ calls[i].output = <<>>

\* C16: once disconnect_ssh has returned, everything connect_ssh opened is
\* closed (the file-transfer client, the SSH client and every proxy socket)
\* and the client fields are None.
C16_DisconnectReleasesEverything ==
    Happened("disconnect_ssh") =>
        /\ ssh_client = None /\ scp_client = None /\ proxy_client = None
        /\ open_socks = {}

\* C17: remote operations never overlap: when a remote command, an upload or
\* the disconnect starts, every remote command issued before it has
\* finished; in particular mkdir -p has completed when the upload starts.
C17_RemoteOperationsNeverOverlap ==
    [][(Len(calls') > Len(calls)
        /\ calls'[Len(calls) + 1].op
              \in RemoteCommands \cup Uploads \cup {"disconnect_ssh"})
       => inflight = {}]_vars

\* C18: the finished flag is set on every way the upload can end (streaming
\* success, chunked fallback, upload error), so that the progress monitor
\* thread leaves its loop at its next poll: once the upload is over, the
\* monitor has exited or the flag that makes it exit is set.
C18_MonitorToldToStop ==
    (monitor # "none" /\ pc \in {"verify", "decompress", "finally", "done"})
        => (finished \/ monitor = "exited")

\* C19: the temporary directory and the archive in it never outlive the
\* deploy call that made them: whenever deploy is past its transfer steps
\* (success, checksum mismatch, failed decompression, exception during the
\* upload), a directory that was created has been removed.
C19_TempDirRemovedOnEveryExit ==
    pc \in {"finally", "done"} =>
        /\ temp_dir # "exists"
        /\ Happened("compress") => temp_dir = "removed"

C19_Witness ==
    /\ pc = "done" /\ result = "False"
    /\ Raised("scp_put")
    /\ temp_dir = "removed"

\* C20: a deployment is all-or-nothing: whenever deploy has returned False,
\* the remote target is in the state it had before the call.
C20_AllOrNothing ==
    (pc = "done" /\ result = "False") => remote = remote_before

\* C21: the connection is never used after disconnect_ssh (no remote command,
\* SCP put or SFTP write follows it), and no remote command issued earlier is
\* still in flight on the connection at the step that closes it.
C21_NoUseAfterDisconnect ==
    [][/\ Happened("disconnect_ssh") => calls' = calls
       /\ (pc = "finally" /\ pc' = "done") => inflight = {}]_vars

\* the SOCKS5 stage set up its tunnel socket
Socks5Established ==
    \E i \in DOMAIN calls : calls[i].op = "socks5" /\ calls[i].status = "ok"

\* C22: the proxy chain stops at the first stage that succeeds: in mode auto,
\* once the SOCKS5 socket is established no HTTP CONNECT is sent and the
\* handshake runs on the SOCKS5 socket; mode socks5 never attempts HTTP
\* CONNECT and mode http never attempts SOCKS5.
C22_ChainStopsAtFirstSuccess ==
    config.proxy_hostname =>
        /\ (config.proxy_type = "auto" /\ Socks5Established) =>
              /\ ~Happened("http_connect")
              /\ Happened("ssh_connect") => sock = "socks5"
        /\ config.proxy_type = "socks5" => ~Happened("http_connect")
        /\ config.proxy_type = "http" => ~Happened("socks5")

\* C23: the archive is transferred by one strategy and never retried: the
\* chunked upload runs only after a streaming call that raised the
\* capability error having sent nothing, each upload call is made at most
\* once, and each remote command is issued at most once per deploy.
C23_OneTransferStrategy ==
    /\ Count("scp_put") <= 1 /\ Count("sftp_put") <= 1
    /\ \A op \in RemoteCommands : Count(op) <= 1
    /\ pc = "sftp_put" =>
          /\ calls[Len(calls)].op = "scp_put"
          /\ calls[Len(calls)].status = "type_error"
          /\ remote.archive = "absent"

\* an operation of the given kind ended with the given status
Ended(op, status) ==
    \E i \in DOMAIN calls : calls[i].op = op /\ calls[i].status = status

\* C24: deploy returns True only when, in this call, both paths were
\* resolved and the local path exists, connect_ssh succeeded, the remote
\* delete (when in effect) reported success, and either (compressed mode) an
\* upload ended without error, the checksum (when enabled) reported no
\* mismatch and the decompress command exited 0, or (direct mode) the copy
\* returned without raising.
C24_TrueOnlyAfterEveryStep ==
    (pc = "done" /\ result = "True") =>
        /\ Truthy(local_path) /\ Truthy(remote_path) /\ local_exists
        /\ connect_result = "True" /\ Ended("ssh_connect", "ok")
        /\ (IF force_delete = None THEN config.delete_before_sync
                                   ELSE force_delete = "True")
              => \/ Ended("test -d", "nonzero")
                 \/ Ended("test -d", "0") /\ Ended("rm -rf", "0")
        /\ IF config.compression
             THEN /\ Ended("scp_put", "ok") \/ Ended("sftp_put", "ok")
                  /\ config.checksum_verify =>
                        \E i \in DOMAIN calls :
                            /\ calls[i].op = "sha256sum"
                            /\ ~(GotRemoteDigest(calls[i])
                                 /\ Head(calls[i].output) # LocalDigest)
                  /\ \E cmd \in DecompressCommands : Ended(cmd, "0")
                  /\ ~Happened("scp_copy")
             ELSE Ended("scp_copy", "ok")

C24_Witness ==
    /\ pc = "done" /\ result = "True"
    /\ config.compression /\ config.checksum_verify
    /\ Ended("rm -rf", "0") /\ Ended("sftp_put", "ok")

\* C25: connect_ssh reports success only after a handshake succeeded and the
\* SCP client was created; with retry_attempts 0 no handshake is attempted,
\* connect_ssh returns a false value, and deploy returns False without
\* issuing any remote command or upload.
C25_SuccessNeedsHandshake ==
    /\ connect_result = "True" =>
          /\ Ended("ssh_connect", "ok")
          /\ ~Happened("disconnect_ssh") =>
                (ssh_client = "connected" /\ scp_client = "open")
    /\ config.retry_attempts <= 0 =>
          /\ ~Happened("ssh_connect")
          /\ connect_result \in {"unset", "False", "None"}
          /\ \A i \in DOMAIN calls :
                calls[i].op \notin RemoteCommands \cup Uploads
          /\ connect_result # "unset" => (pc = "done" /\ result = "False")

C25_Witness ==
    /\ config.retry_attempts = 0
    /\ connect_result = "None"
    /\ pc = "done" /\ result = "False"

====
